---- MODULE Spec2Model ----
(***************************************************************************)
(* Model of src/apm.py: the Ansible module that brings one Atom package    *)
(* to a desired state (present / absent / latest) by running the apm       *)
(* command-line tool and parsing its tree-shaped text output.              *)
(*                                                                         *)
(* Python strings are sequences of one-character strings.  The three       *)
(* box-drawing glyphs the regular expressions name (each a three-byte      *)
(* UTF-8 sequence in the source) are one symbol each.                      *)
(***************************************************************************)
EXTENDS Integers, Sequences, FiniteSets, TLC

\* ------------------------------------------------------------------ bounds
\* Longest list / outdated listing (in lines) the tool starts with.
MaxLines == 2
\* Number of consecutive invocations of the module against the same tool.
MaxRuns == 2

\* ----------------------------------------------------------------- strings
BOX_VR == "BOX_VR"
BOX_UR == "BOX_UR"
BOX_H == "BOX_H"
NL == "\n"
\* The characters of the model's alphabet that \s matches.
Whitespace == {" ", "\t"}

s_list == <<"l", "i", "s", "t">>
s_outdated == <<"o", "u", "t", "d", "a", "t", "e", "d">>
s_install == <<"i", "n", "s", "t", "a", "l", "l">>
s_update == <<"u", "p", "d", "a", "t", "e">>
s_uninstall == <<"u", "n", "i", "n", "s", "t", "a", "l", "l">>
s_empty == <<"(", "e", "m", "p", "t", "y", ")">>

None == <<>>

Range(s) == {s[i] : i \in 1..Len(s)}

\* Index of the first occurrence of character c in s, 0 when there is none.
Find(s, c) ==
  IF \E i \in 1..Len(s) : s[i] = c
  THEN CHOOSE i \in 1..Len(s) : s[i] = c /\ \A j \in 1..(i - 1) : s[j] # c
  ELSE 0

\* str.split(sep) for a one-character separator: empty fields are kept.
RECURSIVE split(_, _)
split(s, sep) ==
  LET i == Find(s, sep)
  IN IF i = 0 THEN <<s>>
     ELSE <<SubSeq(s, 1, i - 1)>> \o split(SubSeq(s, i + 1, Len(s)), sep)

\* str.splitlines(): no line for the empty string or after a final newline.
RECURSIVE splitlines(_)
splitlines(data) ==
  LET i == Find(data, NL)
  IN IF data = <<>> THEN <<>>
     ELSE IF i = 0 THEN <<data>>
     ELSE <<SubSeq(data, 1, i - 1)>> \o splitlines(SubSeq(data, i + 1, Len(data)))

\* ------------------------------------------------------- regular expressions
NoMatch == [matched |-> FALSE, group1 |-> <<>>]

\* '^(?:BOX_VR|BOX_UR)BOX_H BOX_H\s+' : the index of the first character after
\* the prefix (greedy \s+ takes the whole whitespace run), 0 when no match.
PrefixEnd(line) ==
  IF /\ Len(line) >= 4
     /\ line[1] \in {BOX_VR, BOX_UR}
     /\ line[2] = BOX_H
     /\ line[3] = BOX_H
     /\ line[4] \in Whitespace
  THEN CHOOSE p \in 5..(Len(line) + 1) :
         /\ \A j \in 4..(p - 1) : line[j] \in Whitespace
         /\ (p = Len(line) + 1 \/ line[p] \notin Whitespace)
  ELSE 0

\* Last index of the run of non-whitespace characters starting at p
\* (p - 1 when the run is empty).
TokenEnd(line, p) ==
  CHOOSE e \in (p - 1)..Len(line) :
    /\ \A j \in p..e : line[j] \notin Whitespace
    /\ (e = Len(line) \/ line[e + 1] \in Whitespace)

\* re.compile('^(?:..|..)....\s+(\S+)@').match(line): greedy \S+ backtracks to
\* the last '@' of the token that has at least one character before it.
list_pattern_match(line) ==
  LET p == PrefixEnd(line)
      e == IF p = 0 THEN 0 ELSE TokenEnd(line, p)
      ats == IF p = 0 THEN {} ELSE {q \in (p + 1)..e : line[q] = "@"}
  IN IF ats = {} THEN NoMatch
     ELSE LET q == CHOOSE q \in ats : \A r \in ats : r <= q
          IN [matched |-> TRUE, group1 |-> SubSeq(line, p, q - 1)]

\* re.compile('^(?:..|..)....\s+(\S+)').match(line)
outdated_pattern_match(line) ==
  LET p == PrefixEnd(line)
      e == IF p = 0 THEN 0 ELSE TokenEnd(line, p)
  IN IF p = 0 \/ e < p THEN NoMatch
     ELSE [matched |-> TRUE, group1 |-> SubSeq(line, p, e)]

\* ------------------------------------------------------- the external tool
\* The package manager behind module.run_command.  Its state is the two
\* listings it prints: pm.list (apm list) and pm.outdated (apm outdated), each
\* a sequence of lines.
TargetName == <<"a">>
OtherName == <<"b">>
ToolPrefix == <<BOX_UR, BOX_H, BOX_H, " ">>
\* The lines a listing is made of, in the order the tool prints them.
ListPool ==
  << <<BOX_VR, BOX_H, BOX_H, " ">> \o TargetName \o <<"@", "1">>,
     <<BOX_VR, BOX_H, BOX_H, " ">> \o OtherName \o <<"@", "2">>,
     TargetName \o <<"@", "1">>,
     ToolPrefix \o s_empty >>
OutdatedPool ==
  << <<BOX_VR, BOX_H, BOX_H, " ">> \o TargetName \o <<" ", "1">>,
     <<BOX_VR, BOX_H, BOX_H, " ">> \o OtherName \o <<" ", "2">>,
     ToolPrefix \o s_empty >>

\* The lines of pool at the indices S, in pool order.
RECURSIVE Pick(_, _)
Pick(pool, S) ==
  IF pool = <<>> THEN <<>>
  ELSE Pick(SubSeq(pool, 1, Len(pool) - 1), S)
         \o (IF Len(pool) \in S THEN <<pool[Len(pool)]>> ELSE <<>>)

\* The listings of at most MaxLines lines: the tool prints each entry once.
Texts(pool) ==
  {Pick(pool, S) : S \in {T \in SUBSET (1..Len(pool)) : Cardinality(T) <= MaxLines}}
ExitCodes == {0, 1}

RECURSIVE JoinLines(_)
JoinLines(lines) ==
  IF lines = <<>> THEN <<>>
  ELSE Head(lines) \o <<NL>> \o JoinLines(Tail(lines))

\* lines without the entries of the list listing that name pkg.
RECURSIVE DropListed(_, _)
DropListed(lines, pkg) ==
  IF lines = <<>> THEN <<>>
  ELSE LET m == list_pattern_match(Head(lines))
           rest == DropListed(Tail(lines), pkg)
       IN IF m.matched /\ m.group1 = pkg THEN rest ELSE <<Head(lines)>> \o rest

\* lines without the entries of the outdated listing that name pkg.
RECURSIVE DropOutdated(_, _)
DropOutdated(lines, pkg) ==
  IF lines = <<>> THEN <<>>
  ELSE LET m == outdated_pattern_match(Head(lines))
           rest == DropOutdated(Tail(lines), pkg)
       IN IF m.matched /\ m.group1 = pkg THEN rest ELSE <<Head(lines)>> \o rest

\* The package a command's final argument names: the text before its first '@'.
PkgOfArg(arg) ==
  LET i == Find(arg, "@")
  IN IF i > 1 THEN SubSeq(arg, 1, i - 1) ELSE arg

\* The version the argument asks for; the tool's newest one when it names none.
VersionOfArg(arg) ==
  LET i == Find(arg, "@")
  IN IF i > 1 THEN SubSeq(arg, i + 1, Len(arg)) ELSE <<"9">>

Subcommand(cmd) == cmd[Len(cmd) - 1]

\* What the tool writes to its standard output.
ToolStdout(pmv, cmd) ==
  IF Subcommand(cmd) = s_list THEN JoinLines(pmv.list)
  ELSE IF Subcommand(cmd) = s_outdated THEN JoinLines(pmv.outdated)
  ELSE <<>>

\* What a run of the tool does to its state: a successful install adds the
\* target to the list (when no line names it), a successful uninstall removes
\* it, a successful update removes the target (and only it) from the outdated
\* listing; a failed run and the two listings change nothing.
ToolEffect(pmv, cmd, rc) ==
  LET sub == Subcommand(cmd)
      pkg == PkgOfArg(cmd[Len(cmd)])
      named == \E i \in 1..Len(pmv.list) :
                 LET m == list_pattern_match(pmv.list[i])
                 IN m.matched /\ m.group1 = pkg
  IN IF rc # 0 THEN pmv
     ELSE IF sub = s_install /\ ~named
       THEN [pmv EXCEPT !.list =
               Append(@, ToolPrefix \o pkg \o <<"@">> \o VersionOfArg(cmd[Len(cmd)]))]
     ELSE IF sub = s_uninstall
       THEN [pmv EXCEPT !.list = DropListed(@, pkg)]
     ELSE IF sub = s_update
       THEN [pmv EXCEPT !.outdated = DropOutdated(@, pkg)]
     ELSE pmv

\* module.run_command(cmd, check_rc): with check_rc a non-zero exit status is
\* fatal (fail_json); otherwise the output is returned whatever the status.
run_command(cmd, check_rc, rc, pmv) ==
  [failed |-> check_rc /\ rc # 0,
   out |-> ToolStdout(pmv, cmd),
   pm |-> ToolEffect(pmv, cmd, rc)]

\* ----------------------------------------------------------------- class Apm
\* Faulty variant: the version is dropped from the target identifier.
Apm_name_version_bare(name, version) == name

\* Apm.__init__: the argv prefix and the target identifier.
Apm_name_version(name, version) ==
  IF version # None THEN name \o <<"@">> \o version ELSE name

Apm_init(name, version, executable, bin_path) ==
  [name |-> name,
   version |-> version,
   executable |-> IF executable # None THEN split(executable, " ") ELSE <<bin_path>>,
   name_version |-> Apm_name_version(name, version)]

\* Faulty variant: check mode does not suppress the subprocess.
Apm_exec_unchecked(self, chk, args, run_in_check_mode, check_rc, rc, pmv) ==
  LET cmd == self.executable \o args
               \o (IF self.name # None THEN <<self.name_version>> ELSE <<>>)
      r == run_command(cmd, check_rc, rc, pmv)
  IN [ran |-> TRUE, cmd |-> cmd, rc |-> rc, failed |-> r.failed,
      out |-> r.out, pm |-> r.pm]

\* Faulty variant: the output of a subprocess that exits non-zero is dropped.
Apm_exec_drop(self, chk, args, run_in_check_mode, check_rc, rc, pmv) ==
  IF ~chk \/ (chk /\ run_in_check_mode)
  THEN LET cmd == self.executable \o args
                    \o (IF self.name # None THEN <<self.name_version>> ELSE <<>>)
           r == run_command(cmd, check_rc, rc, pmv)
       IN [ran |-> TRUE, cmd |-> cmd, rc |-> rc, failed |-> r.failed,
           out |-> IF rc # 0 THEN <<>> ELSE r.out, pm |-> r.pm]
  ELSE [ran |-> FALSE, cmd |-> <<>>, rc |-> 0, failed |-> FALSE,
        out |-> <<>>, pm |-> pmv]

\* Apm._exec: rc is the exit status the subprocess ends with, pmv the tool's
\* state when it starts.
Apm_exec(self, chk, args, run_in_check_mode, check_rc, rc, pmv) ==
  IF ~chk \/ (chk /\ run_in_check_mode)
  THEN LET cmd == self.executable \o args
                    \o (IF self.name # None THEN <<self.name_version>> ELSE <<>>)
           r == run_command(cmd, check_rc, rc, pmv)
       IN [ran |-> TRUE, cmd |-> cmd, rc |-> rc, failed |-> r.failed,
           out |-> r.out, pm |-> r.pm]
  ELSE [ran |-> FALSE, cmd |-> <<>>, rc |-> 0, failed |-> FALSE,
        out |-> <<>>, pm |-> pmv]

\* The loops of list and list_outdated over data.splitlines().
RECURSIVE ListNames(_)
ListNames(lines) ==
  IF lines = <<>> THEN <<>>
  ELSE LET m == list_pattern_match(Head(lines))
       IN (IF m.matched THEN <<m.group1>> ELSE <<>>) \o ListNames(Tail(lines))

RECURSIVE OutdatedNames(_)
OutdatedNames(lines) ==
  IF lines = <<>> THEN <<>>
  ELSE LET m == outdated_pattern_match(Head(lines))
       IN (IF m.matched /\ m.group1 # s_empty THEN <<m.group1>> ELSE <<>>)
            \o OutdatedNames(Tail(lines))

\* Faulty variant: membership tested with the target identifier name@version.
Missing_by_identifier(self, inst) ==
  IF self.name_version \notin Range(inst) THEN <<self.name>> ELSE <<>>

\* 'self.name not in installed'
Missing(self, inst) ==
  IF self.name \notin Range(inst) THEN <<self.name>> ELSE <<>>

Apm_list(self, chk, rc, pmv) ==
  LET e == Apm_exec(self, chk, <<s_list>>, TRUE, FALSE, rc, pmv)
      inst == ListNames(splitlines(e.out))
  IN [exec |-> e, installed |-> inst, missing |-> Missing(self, inst)]

Apm_list_outdated(self, chk, rc, pmv) ==
  LET e == Apm_exec(self, chk, <<s_outdated>>, TRUE, FALSE, rc, pmv)
  IN [exec |-> e, outdated |-> OutdatedNames(splitlines(e.out))]

\* Faulty variant: install runs with check_rc=False.
Apm_install_tolerant(self, chk, rc, pmv) ==
  Apm_exec(self, chk, <<s_install>>, FALSE, FALSE, rc, pmv)

Apm_install(self, chk, rc, pmv) ==
  Apm_exec(self, chk, <<s_install>>, FALSE, TRUE, rc, pmv)

Apm_update(self, chk, rc, pmv) ==
  Apm_exec(self, chk, <<s_update>>, FALSE, TRUE, rc, pmv)

Apm_uninstall(self, chk, rc, pmv) ==
  Apm_exec(self, chk, <<s_uninstall>>, FALSE, TRUE, rc, pmv)

\* ------------------------------------------------------------------- state
VARIABLES
  params,       \* module.params: name, version, executable, state
  check_mode,   \* module.check_mode of the running invocation
  pm,           \* the package manager's state (its two listings)
  pc,           \* position in main()
  apm,          \* the Apm object
  installed,    \* main's local: names parsed from apm list
  missing,      \* main's local: [name] when the target is not installed
  outdated,     \* main's local: names parsed from apm outdated
  changed,      \* main's local
  result,       \* how the invocation ended: "none", "exit_json", "fail_json"
  calls,        \* the subprocesses run by this invocation, in order
  invoked,      \* the Apm methods main called in this invocation, in order
  run,          \* index of the running invocation
  prev          \* what the previous invocation did

vars == <<params, check_mode, pm, pc, apm, installed, missing, outdated,
          changed, result, calls, invoked, run, prev>>

NoApm == [name |-> None, version |-> None, executable |-> <<>>, name_version |-> None]
NoPrev == [ended |-> FALSE, check_mode |-> FALSE, result |-> "none",
           changed |-> FALSE, invoked |-> <<>>, data |-> <<>>]
BinPath == <<"/", "b", "/", "a", "p", "m">>
Executables == {None, <<"x", " ", "-", "g">>}
Versions == {None, <<"1">>}
States == {"present", "absent", "latest"}
Mutating == {"install", "update", "uninstall"}

Init ==
  /\ params \in [name : {None, TargetName}, version : Versions,
                 executable : Executables, state : States]
  /\ check_mode \in BOOLEAN
  /\ pm \in [list : Texts(ListPool), outdated : Texts(OutdatedPool)]
  /\ pc = "start"
  /\ apm = NoApm
  /\ installed = <<>>
  /\ missing = <<>>
  /\ outdated = <<>>
  /\ changed = FALSE
  /\ result = "none"
  /\ calls = <<>>
  /\ invoked = <<>>
  /\ run = 1
  /\ prev = NoPrev

\* A subprocess that ran is appended to the log.
Logged(e) ==
  IF e.ran THEN Append(calls, [cmd |-> e.cmd, rc |-> e.rc, out |-> e.out]) ELSE calls

\* module.fail_json: the invocation ends without a result.
FailJson ==
  /\ result' = "fail_json"
  /\ pc' = "done"

\* main, lines 150-160: the name is required; the Apm object is built, which
\* fails when no executable is given and apm is not on the search path.
MainStart ==
  /\ pc = "start"
  /\ IF ~(params.name # None)
     THEN FailJson /\ UNCHANGED apm
     ELSE \E found \in BOOLEAN :
            IF params.executable = None /\ ~found
            THEN FailJson /\ UNCHANGED apm
            ELSE /\ apm' = Apm_init(params.name, params.version,
                                    params.executable, BinPath)
                 /\ pc' = "list"
                 /\ UNCHANGED result
  /\ changed' = FALSE
  /\ UNCHANGED <<params, check_mode, pm, installed, missing, outdated, calls,
                 invoked, run, prev>>

\* 'installed, missing = apm.list()' of each of the three branches.
MainList ==
  /\ pc = "list"
  /\ \E rc \in ExitCodes :
       LET r == Apm_list(apm, check_mode, rc, pm)
       IN /\ calls' = Logged(r.exec)
          /\ pm' = r.exec.pm
          /\ invoked' = Append(invoked, "list")
          /\ IF r.exec.failed
             THEN FailJson /\ UNCHANGED <<installed, missing>>
             ELSE /\ installed' = r.installed
                  /\ missing' = r.missing
                  /\ pc' = IF params.state = "present" THEN "present"
                           ELSE IF params.state = "latest" THEN "outdated"
                           ELSE "absent"
                  /\ UNCHANGED result
  /\ UNCHANGED <<params, check_mode, apm, outdated, changed, run, prev>>

\* 'outdated = apm.list_outdated()' of the latest branch.
MainListOutdated ==
  /\ pc = "outdated"
  /\ \E rc \in ExitCodes :
       LET r == Apm_list_outdated(apm, check_mode, rc, pm)
       IN /\ calls' = Logged(r.exec)
          /\ pm' = r.exec.pm
          /\ invoked' = Append(invoked, "outdated")
          /\ IF r.exec.failed
             THEN FailJson /\ UNCHANGED outdated
             ELSE /\ outdated' = r.outdated
                  /\ pc' = "latest_install"
                  /\ UNCHANGED result
  /\ UNCHANGED <<params, check_mode, apm, installed, missing, changed, run, prev>>

\* Faulty variant: uninstall as soon as anything at all is installed.
NeedsUninstall_any(name, inst) == Len(inst) # 0

\* The conditions of main's branches.
NeedsInstall(miss) == Len(miss) # 0
NeedsUpdate(outd) == Len(outd) # 0
NeedsUninstall(name, inst) == name \in Range(inst)

\* A guarded mutating call: 'if cond: changed = True; apm.<method>()'.
Guarded(cond, method, e, next) ==
  IF cond
  THEN /\ changed' = TRUE
       /\ calls' = Logged(e)
       /\ pm' = e.pm
       /\ invoked' = Append(invoked, method)
       /\ IF e.failed THEN FailJson ELSE pc' = next /\ UNCHANGED result
  ELSE /\ pc' = next
       /\ UNCHANGED <<changed, calls, pm, invoked, result>>

\* state == 'present': lines 163-165.
MainPresent ==
  /\ pc = "present"
  /\ \E rc \in ExitCodes :
       Guarded(NeedsInstall(missing), "install",
               Apm_install(apm, check_mode, rc, pm), "exit")
  /\ UNCHANGED <<params, check_mode, apm, installed, missing, outdated, run, prev>>

\* Faulty variant: 'elif len(outdated)', the update is skipped after an install.
MainLatestInstall_elif ==
  /\ pc = "latest_install"
  /\ \E rc \in ExitCodes :
       Guarded(NeedsInstall(missing), "install",
               Apm_install(apm, check_mode, rc, pm),
               IF NeedsInstall(missing) THEN "exit" ELSE "latest_update")
  /\ UNCHANGED <<params, check_mode, apm, installed, missing, outdated, run, prev>>

\* state == 'latest': lines 169-171.
MainLatestInstall ==
  /\ pc = "latest_install"
  /\ \E rc \in ExitCodes :
       Guarded(NeedsInstall(missing), "install",
               Apm_install(apm, check_mode, rc, pm), "latest_update")
  /\ UNCHANGED <<params, check_mode, apm, installed, missing, outdated, run, prev>>

\* Faulty variant: the outdated listing is read again before the update is
\* decided.
MainLatestUpdate_requery ==
  /\ pc = "latest_update"
  /\ \E rc1 \in ExitCodes, rc \in ExitCodes :
       LET q == Apm_list_outdated(apm, check_mode, rc1, pm)
           e == Apm_update(apm, check_mode, rc, q.exec.pm)
           log == Logged(q.exec)
       IN /\ outdated' = q.outdated
          /\ IF NeedsUpdate(q.outdated)
             THEN /\ changed' = TRUE
                  /\ calls' = IF e.ran
                              THEN Append(log, [cmd |-> e.cmd, rc |-> e.rc, out |-> e.out])
                              ELSE log
                  /\ pm' = e.pm
                  /\ invoked' = invoked \o <<"outdated", "update">>
                  /\ IF e.failed THEN FailJson ELSE pc' = "exit" /\ UNCHANGED result
             ELSE /\ calls' = log
                  /\ invoked' = Append(invoked, "outdated")
                  /\ pc' = "exit"
                  /\ UNCHANGED <<changed, pm, result>>
  /\ UNCHANGED <<params, check_mode, apm, installed, missing, run, prev>>

\* state == 'latest': lines 172-174.
MainLatestUpdate ==
  /\ pc = "latest_update"
  /\ \E rc \in ExitCodes :
       Guarded(NeedsUpdate(outdated), "update",
               Apm_update(apm, check_mode, rc, pm), "exit")
  /\ UNCHANGED <<params, check_mode, apm, installed, missing, outdated, run, prev>>

\* state == 'absent': lines 177-179.
MainAbsent ==
  /\ pc = "absent"
  /\ \E rc \in ExitCodes :
       Guarded(NeedsUninstall(params.name, installed), "uninstall",
               Apm_uninstall(apm, check_mode, rc, pm), "exit")
  /\ UNCHANGED <<params, check_mode, apm, installed, missing, outdated, run, prev>>

\* module.exit_json(changed=changed)
MainExit ==
  /\ pc = "exit"
  /\ result' = "exit_json"
  /\ pc' = "done"
  /\ UNCHANGED <<params, check_mode, pm, apm, installed, missing, outdated,
                 changed, calls, invoked, run, prev>>

\* The outputs of the observation subprocesses of this invocation.
RECURSIVE Outputs(_)
Outputs(log) ==
  IF log = <<>> THEN <<>>
  ELSE (IF Subcommand(Head(log).cmd) \in {s_list, s_outdated}
        THEN <<Head(log).out>> ELSE <<>>) \o Outputs(Tail(log))

\* The orchestrator runs the module again with the same parameters (main() is
\* run once per process: every local starts afresh, only the tool keeps state).
NextRun ==
  /\ pc = "done"
  /\ run < MaxRuns
  /\ run' = run + 1
  /\ prev' = [ended |-> TRUE, check_mode |-> check_mode, result |-> result,
              changed |-> changed, invoked |-> invoked, data |-> Outputs(calls)]
  /\ check_mode' \in BOOLEAN
  /\ pc' = "start"
  /\ apm' = NoApm
  /\ installed' = <<>>
  /\ missing' = <<>>
  /\ outdated' = <<>>
  /\ changed' = FALSE
  /\ result' = "none"
  /\ calls' = <<>>
  /\ invoked' = <<>>
  /\ UNCHANGED <<params, pm>>

Next ==
  \/ MainStart
  \/ MainList
  \/ MainListOutdated
  \/ MainPresent
  \/ MainLatestInstall
  \/ MainLatestUpdate
  \/ MainAbsent
  \/ MainExit
  \/ NextRun

Spec == Init /\ [][Next]_vars

\* ------------------------------------------------------------ for the claims
Count(seq, x) == Cardinality({i \in 1..Len(seq) : seq[i] = x})
IndexOf(seq, x) == CHOOSE i \in 1..Len(seq) : seq[i] = x
\* The subcommands of the subprocesses run so far, in order.
Subs == [i \in 1..Len(calls) |-> Subcommand(calls[i].cmd)]
MutatingSubs == {s_install, s_update, s_uninstall}
ObservingSubs == {s_list, s_outdated}
NoMutation ==
  /\ \A i \in 1..Len(invoked) : invoked[i] \notin Mutating
  /\ \A i \in 1..Len(calls) : Subs[i] \notin MutatingSubs
AllOk == \A i \in 1..Len(calls) : calls[i].rc = 0
\* The invocation is over and got as far as running the tool.
Finished == pc = "done" /\ invoked # <<>>
TargetInstalled == params.name \in Range(installed)
TargetOutdated == params.name \in Range(outdated)

\* C1: with state=present and every subprocess succeeding, a target that is
\* not among the parsed installed names is installed exactly once and the
\* result is changed=true; a target that is among them causes no mutating
\* call and the result is changed=false.
C1_Present ==
  (Finished /\ params.state = "present" /\ AllOk) =>
    /\ result = "exit_json"
    /\ ~TargetInstalled =>
         /\ Count(invoked, "install") = 1
         /\ ~check_mode => Count(Subs, s_install) = 1
         /\ Count(invoked, "update") = 0 /\ Count(invoked, "uninstall") = 0
         /\ changed = TRUE
    /\ TargetInstalled => (NoMutation /\ changed = FALSE)

C1_Witness ==
  /\ Finished /\ params.state = "present" /\ AllOk /\ ~check_mode
  /\ ~TargetInstalled
  /\ OtherName \in Range(installed)
  /\ Subs = <<s_list, s_install>>
  /\ changed = TRUE

\* C2: with state=absent and every subprocess succeeding, a target that is
\* among the parsed installed names is uninstalled exactly once and the result
\* is changed=true; otherwise there is no mutating call and changed=false;
\* install and update are never invoked in this state.
C2_Absent ==
  /\ params.state = "absent" =>
       /\ Count(invoked, "install") = 0 /\ Count(invoked, "update") = 0
       /\ Count(Subs, s_install) = 0 /\ Count(Subs, s_update) = 0
  /\ (Finished /\ params.state = "absent" /\ AllOk) =>
       /\ result = "exit_json"
       /\ TargetInstalled =>
            /\ Count(invoked, "uninstall") = 1
            /\ ~check_mode => Count(Subs, s_uninstall) = 1
            /\ changed = TRUE
       /\ ~TargetInstalled => (NoMutation /\ changed = FALSE)

C2_Witness ==
  /\ Finished /\ params.state = "absent" /\ AllOk /\ ~check_mode
  /\ TargetInstalled
  /\ Subs = <<s_list, s_uninstall>>
  /\ changed = TRUE
  /\ result = "exit_json"

\* C3: with state=latest and every subprocess succeeding, a missing target is
\* installed, a target listed as outdated is updated, with both conditions
\* both calls occur and install comes strictly before update, and in each of
\* these cases the result is changed=true.
C3_Latest ==
  (Finished /\ params.state = "latest" /\ AllOk) =>
    /\ result = "exit_json"
    /\ ~TargetInstalled =>
         /\ Count(invoked, "install") = 1
         /\ ~check_mode => Count(Subs, s_install) = 1
         /\ changed = TRUE
    /\ TargetOutdated =>
         /\ Count(invoked, "update") = 1
         /\ ~check_mode => Count(Subs, s_update) = 1
         /\ changed = TRUE
    /\ (~TargetInstalled /\ TargetOutdated) =>
         /\ IndexOf(invoked, "install") < IndexOf(invoked, "update")
         /\ ~check_mode => IndexOf(Subs, s_install) < IndexOf(Subs, s_update)

C3_Witness ==
  /\ Finished /\ params.state = "latest" /\ AllOk /\ ~check_mode
  /\ ~TargetInstalled /\ TargetOutdated
  /\ Subs = <<s_list, s_outdated, s_install, s_update>>
  /\ changed = TRUE
  /\ result = "exit_json"

\* C4: with state=latest, a target that is in the parsed installed set and is
\* not listed in the parsed outdated set causes no mutating call and the
\* result changed=false, whatever other names the outdated set holds.
C4_LatestNeither ==
  (Finished /\ params.state = "latest" /\ result = "exit_json"
     /\ TargetInstalled /\ ~TargetOutdated) =>
    (NoMutation /\ changed = FALSE)

\* C5: in check mode no install, update or uninstall subprocess is ever run,
\* the list subprocess (and the outdated one for state=latest) is still run
\* and parsed, and the reported changed value is the one an invocation with
\* the other check-mode setting reports for the same request and the same
\* list / outdated output.
C5_CheckMode ==
  /\ check_mode => \A i \in 1..Len(calls) : Subs[i] \notin MutatingSubs
  /\ (check_mode /\ Finished) =>
       /\ result = "exit_json"
       /\ Subs = IF params.state = "latest" THEN <<s_list, s_outdated>>
                 ELSE <<s_list>>
       /\ installed = ListNames(pm.list)
       /\ params.state = "latest" => outdated = OutdatedNames(pm.outdated)
  /\ (/\ prev.ended /\ prev.result = "exit_json"
      /\ pc = "done" /\ result = "exit_json"
      /\ prev.check_mode # check_mode
      /\ Outputs(calls) = prev.data) =>
       changed = prev.changed

C5_Witness ==
  /\ prev.ended /\ prev.result = "exit_json" /\ prev.check_mode
  /\ prev.changed = TRUE
  /\ prev.invoked = <<"list", "outdated", "install", "update">>
  /\ pc = "done" /\ result = "exit_json" /\ ~check_mode
  /\ Outputs(calls) = prev.data
  /\ Subs = <<s_list, s_outdated, s_install, s_update>>
  /\ changed = TRUE

\* C6: an install, update or uninstall subprocess that exits non-zero ends
\* the invocation in a fatal error: it is the last subprocess run and no
\* changed result is reported.
C6_MutatingFailureFatal ==
  \A i \in 1..Len(calls) :
    (Subs[i] \in MutatingSubs /\ calls[i].rc # 0) =>
      /\ i = Len(calls)
      /\ pc = "done"
      /\ result = "fail_json"

C6_Witness ==
  /\ params.state = "latest"
  /\ Subs = <<s_list, s_outdated, s_install>>
  /\ calls[3].rc # 0
  /\ NeedsUpdate(outdated)
  /\ pc = "done"
  /\ result = "fail_json"

C8_Idempotent ==
  (/\ prev.ended /\ prev.result = "exit_json" /\ ~prev.check_mode
   /\ pc = "done" /\ result = "exit_json") =>
    (NoMutation /\ changed = FALSE)

\* C9: every install, update and uninstall command is the executable argv
\* prefix, the subcommand, then the target identifier (name@version when a
\* version is given, the bare name otherwise); the membership tests behind
\* 'missing' and 'installed' use the bare name in both cases.
ExpectedPrefix ==
  IF params.executable = None THEN <<BinPath>> ELSE <<<<"x">>, <<"-", "g">>>>
ExpectedTarget ==
  IF params.version = None THEN <<"a">> ELSE <<"a", "@", "1">>
SubOf(method) ==
  IF method = "install" THEN s_install
  ELSE IF method = "update" THEN s_update
  ELSE IF method = "uninstall" THEN s_uninstall
  ELSE IF method = "list" THEN s_list
  ELSE s_outdated

C9_Argv ==
  /\ ~check_mode =>
       /\ Len(calls) = Len(invoked)
       /\ \A i \in 1..Len(calls) :
            invoked[i] \in Mutating =>
              calls[i].cmd = ExpectedPrefix \o <<SubOf(invoked[i])>> \o <<ExpectedTarget>>
  /\ pc \in {"present", "absent", "outdated", "latest_install", "latest_update", "exit"} =>
       /\ (missing = <<>>) <=> (<<"a">> \in Range(installed))
       /\ missing \in {<<>>, <<<<"a">>>>}
  /\ (params.state = "absent" /\ pc = "exit") =>
       (Count(invoked, "uninstall") = 1 <=> <<"a">> \in Range(installed))

C9_Witness ==
  /\ params.state = "absent" /\ pc = "exit" /\ ~check_mode
  /\ params.version = <<"1">>
  /\ params.executable # None
  /\ <<"a">> \in Range(installed)
  /\ <<"a", "@", "1">> \notin Range(installed)
  /\ Len(calls) = 2
  /\ calls[2].cmd = <<<<"x">>, <<"-", "g">>, s_uninstall, <<"a", "@", "1">>>>

\* C10: the subprocesses of an invocation run in a fixed order: list first,
\* outdated only for state=latest and directly after list, every mutating
\* subcommand after the observations, each subcommand at most once (at most
\* four subprocesses), and nothing is queried again after a mutating call:
\* for state=latest update is decided on the outdated set read before install.
C10_Order ==
  /\ Len(calls) <= 4
  /\ \A i \in 1..Len(calls) : Subs[i] \in ObservingSubs \cup MutatingSubs
  /\ \A sub \in ObservingSubs \cup MutatingSubs : Count(Subs, sub) <= 1
  /\ Len(calls) >= 1 => Subs[1] = s_list
  /\ \A i \in 1..Len(calls) :
       Subs[i] = s_outdated => (i = 2 /\ params.state = "latest")
  /\ (params.state = "latest" /\ Len(calls) >= 2) => Subs[2] = s_outdated
  /\ \A i, j \in 1..Len(calls) :
       (i < j /\ Subs[i] \in MutatingSubs) => Subs[j] \in MutatingSubs
  /\ (params.state = "latest" /\ pc = "exit") =>
       (Count(invoked, "update") = 1
          <=> OutdatedNames(splitlines(calls[2].out)) # <<>>)

C10_Witness ==
  /\ params.state = "latest" /\ pc = "exit" /\ ~check_mode
  /\ Subs = <<s_list, s_outdated, s_install, s_update>>
  /\ \A i \in 1..4 : calls[i].rc = 0
  /\ OutdatedNames(splitlines(calls[2].out)) = <<OtherName>>
  /\ TargetName \in Range(ListNames(pm.list))
  /\ ~TargetInstalled

====
